---------------------------- MODULE Spec2Model ----------------------------
(***************************************************************************)
(* A model of the MABE2 configuration environment:                         *)
(*   - ConfigEntry / ConfigScope (the Symbol and Scope of the design       *)
(*     document): declaration, lookup, renaming, value access, cloning;    *)
(*   - EmplodeTools::WrapFunction / WrapMemberFunction (the Function       *)
(*     Adapter).                                                           *)
(* Symbols live in a heap indexed by allocation order; a pointer is an     *)
(* index and Null is the null pointer.                                     *)
(***************************************************************************)
EXTENDS Integers, Sequences, FiniteSets

(***************************************************************************)
(* Bounds of the model.                                                    *)
(***************************************************************************)
MaxSyms == 4

MaxVal == 1

MaxArgs == 2

MaxArgVal == 3

MaxOffset == 9

MaxPop == 3

MaxOrgs == 2

SizeBits == 3

RegBits == 2

NumRegs == 3

Null == 0

\* The names that declarations and renamings draw from.
Names == {"x", "y"}

Doubles == 0..MaxVal

DigitStr == <<"0", "1", "2", "3", "4", "5", "6", "7", "8", "9">>

\* emp::to_string on a (small, whole) double.
to_string(d) == IF d \in 0..9 THEN DigitStr[d + 1] ELSE "?"

\* emp::from_string<double>: a failed extraction leaves 0.
from_string(t) ==
  IF \E d \in 0..9 : DigitStr[d + 1] = t
  THEN CHOOSE d \in 0..9 : DigitStr[d + 1] = t
  ELSE 0

Strings == {to_string(d) : d \in Doubles} \cup {"a"}

HostVars == {"hd", "hs"}

VARIABLES
  heap,      \* the allocated ConfigEntry objects, by pointer
  host,      \* the host-owned variables that linked entries refer to
  cloneOf,   \* history: cloneOf[p] is the object p was copied from (or Null)
  declName,  \* history: declName[p] is the name p was declared under (or "")
  allocIn,   \* history: allocIn[p] is the scope p was allocated into (or Null)
  copyRet,   \* what the last CopyValue call returned ("none" before any)
  os,        \* the output stream of the last Write call, as a sequence of lines
  ndebug,    \* the build: TRUE when NDEBUG is defined (emp_assert compiled out)
  call,      \* the last invocation of a wrapped function and what it did
  pops,      \* the Population objects: pops[1] is constructed, the rest are copies
  out_org,   \* what the last ExtractOrg call returned
  it,        \* a Population::Iterator
  visited,   \* history: the positions a loop over the living organisms has seen
  regs,      \* the registers of a VirtualCPUOrg
  inst       \* the instruction the VirtualCPUOrg executed last

scopeVars == <<heap, host, cloneOf, declName, allocIn, copyRet, os>>

\* What only CopyValue and Write touch.
ioVars == <<copyRet, os>>

wrapVars == <<ndebug, call>>

popVars == <<pops, out_org, it, visited>>

cpuVars == <<regs, inst>>

\* What the operations on scopes and entries leave alone.
scopeFrame == <<wrapVars, popVars, cpuVars>>

\* What an invocation of a wrapped function leaves alone.
wrapFrame == <<scopeVars, popVars, cpuVars>>

\* What every operation of the configuration environment leaves alone.
buildFrame == <<ndebug, popVars, cpuVars>>

Ptrs == 1..Len(heap)

\* The objects that have not been deleted.
Live == {p \in Ptrs : heap[p].kind # "freed"}

IsScope(p) == heap[p].kind = "scope"

ScopePtrs == {p \in Ptrs : IsScope(p)}

EmptyMap == [n \in Names |-> Null]

\* emp::Range<double>(): the widest range, its ends beyond every value used.
range_default == [lower |-> 0 - MaxVal - 1, upper |-> MaxVal + 1]

\* A freshly constructed entry of the given kind (ConfigEntry(_name, _desc, _scope)).
NewEntry(kind, name, scope, var) ==
  [kind |-> kind, name |-> name, desc |-> "", default_val |-> "",
   scope |-> scope, is_temporary |-> FALSE,
   dval |-> 0, sval |-> "", var |-> var,
   entry_list |-> <<>>, builtin_list |-> <<>>, entry_map |-> EmptyMap,
   type |-> "", range |-> range_default]

\* The members of a sequence.
Range(s) == {s[i] : i \in 1..Len(s)}

Children(p) == Range(heap[p].entry_list) \cup Range(heap[p].builtin_list)

(***************************************************************************)
(* Value access (the AsDouble / AsString overrides of the four primitive   *)
(* kinds).                                                                 *)
(***************************************************************************)
IsPrimitive(p) ==
  heap[p].kind \in {"double", "string", "linked_double", "linked_string"}

AsDouble_Cached(p) ==
  CASE heap[p].kind = "double" -> heap[p].dval
    [] heap[p].kind = "string" -> from_string(heap[p].sval)
    [] heap[p].kind = "linked_double" -> heap[p].dval
    [] heap[p].kind = "linked_string" -> from_string(heap[p].sval)
    [] OTHER -> 0

AsDouble(p) ==
  CASE heap[p].kind = "double" -> heap[p].dval
    [] heap[p].kind = "string" -> from_string(heap[p].sval)
    [] heap[p].kind = "linked_double" -> host.hd
    [] heap[p].kind = "linked_string" -> from_string(host.hs)
    [] OTHER -> 0

AsString(p) ==
  CASE heap[p].kind = "double" -> to_string(heap[p].dval)
    [] heap[p].kind = "string" -> heap[p].sval
    [] heap[p].kind = "linked_double" -> to_string(host.hd)
    [] heap[p].kind = "linked_string" -> host.hs
    [] OTHER -> ""

(***************************************************************************)
(* ConfigScope::LookupEntry.                                               *)
(***************************************************************************)
LookupEntry_OneLevel(s, name, scan_scopes) ==
  IF name \in Names /\ heap[s].entry_map[name] # Null
  THEN heap[s].entry_map[name]
  ELSE IF heap[s].scope = Null \/ ~scan_scopes
       THEN Null
       ELSE IF name \in Names THEN heap[heap[s].scope].entry_map[name] ELSE Null

RECURSIVE LookupEntry(_, _, _)
LookupEntry(s, name, scan_scopes) ==
  IF name \in Names /\ heap[s].entry_map[name] # Null
  THEN heap[s].entry_map[name]
  ELSE IF heap[s].scope = Null \/ ~scan_scopes
       THEN Null
       ELSE LookupEntry(heap[s].scope, name, TRUE)

(***************************************************************************)
(* Declaration: ConfigScope::Add and ConfigScope::AddBuiltin.              *)
(***************************************************************************)
Add_NoMap(s, e) ==
  /\ IsScope(s)
  /\ Len(heap) < MaxSyms
  /\ LET new_ptr == Len(heap) + 1
     IN  heap' = Append([heap EXCEPT ![s].entry_list = Append(@, new_ptr)], e)
  /\ cloneOf' = Append(cloneOf, Null)
  /\ declName' = Append(declName, e.name)
  /\ allocIn' = Append(allocIn, s)
  /\ UNCHANGED <<host, ioVars>>
  /\ UNCHANGED scopeFrame

Add(s, e) ==
  /\ IsScope(s)
  /\ Len(heap) < MaxSyms
  /\ LET new_ptr == Len(heap) + 1
     IN  heap' = Append([heap EXCEPT ![s].entry_list = Append(@, new_ptr),
                                     ![s].entry_map[e.name] = new_ptr], e)
  /\ cloneOf' = Append(cloneOf, Null)
  /\ declName' = Append(declName, e.name)
  /\ allocIn' = Append(allocIn, s)
  /\ UNCHANGED <<host, ioVars>>
  /\ UNCHANGED scopeFrame

AddBuiltin(s, e) ==
  /\ IsScope(s)
  /\ Len(heap) < MaxSyms
  /\ LET new_ptr == Len(heap) + 1
     IN  heap' = Append([heap EXCEPT ![s].builtin_list = Append(@, new_ptr),
                                     ![s].entry_map[e.name] = new_ptr], e)
  /\ cloneOf' = Append(cloneOf, Null)
  /\ declName' = Append(declName, e.name)
  /\ allocIn' = Append(allocIn, s)
  /\ UNCHANGED <<host, ioVars>>
  /\ UNCHANGED scopeFrame

\* The default_val parameter is not used by the body.
LinkVar(s, name, hv, default_val) ==
  Add(s, NewEntry(IF hv = "hd" THEN "linked_double" ELSE "linked_string",
                  name, s, hv))

\* The entry reaches the host variable through the getter and setter; the
\* default_val parameter is not used by the body.
LinkFuns(s, name, hv, default_val) ==
  Add(s, NewEntry("linked_funs", name, s, hv))

AddStringVar(s, name) == Add(s, NewEntry("string", name, s, ""))

AddValueVar(s, name) == Add(s, NewEntry("double", name, s, ""))

AddScope(s, name) == Add(s, NewEntry("scope", name, s, ""))

\* AddScope(name, desc, type) with a description and a structure type.
AddScopeOfType(s, name, desc, type) ==
  Add(s, [NewEntry("scope", name, s, "") EXCEPT !.desc = desc, !.type = type])

AddBuiltinFunction(s, name) == AddBuiltin(s, NewEntry("function", name, s, ""))

(***************************************************************************)
(* ConfigEntry::SetName.                                                   *)
(***************************************************************************)
SetName(p, in) ==
  /\ heap[p].name # in
  /\ heap' = [heap EXCEPT ![p].name = in]
  /\ UNCHANGED <<host, cloneOf, declName, allocIn, ioVars>>
  /\ UNCHANGED scopeFrame

(***************************************************************************)
(* Clone: the copy constructors.  CloneInto allocates the copy of p, then  *)
(* (for a scope) the copies of its declared and built-in children, in      *)
(* order; st is the heap with the cloneOf and allocIn histories.           *)
(***************************************************************************)
RECURSIVE CloneInto(_, _)
RECURSIVE CloneList(_, _, _, _, _)

CloneList(st, to, list, i, builtin) ==
  IF i > Len(list) THEN st
  ELSE LET x == list[i]
           new_ptr == Len(st.h) + 1
           st1 == CloneInto(st, x)
           key == st.h[x].name
           h2 == IF builtin
                 THEN [st1.h EXCEPT ![to].builtin_list = Append(@, new_ptr),
                                    ![to].entry_map[key] = new_ptr]
                 ELSE [st1.h EXCEPT ![to].entry_list = Append(@, new_ptr),
                                    ![to].entry_map[key] = new_ptr]
       IN  CloneList([h |-> h2, co |-> st1.co,
                          ai |-> [st1.ai EXCEPT ![new_ptr] = to]],
                         to, list, i + 1, builtin)

CloneInto(st, p) ==
  IF st.h[p].kind # "scope"
  THEN [h |-> Append(st.h, st.h[p]), co |-> Append(st.co, p),
        ai |-> Append(st.ai, Null)]
  ELSE LET new_ptr == Len(st.h) + 1
           \* ConfigEntry(in): name, scope and the rest are copied; the
           \* containers start empty
           \* type is not among the member initializers
           base == [st.h[p] EXCEPT !.entry_list = <<>>, !.builtin_list = <<>>,
                                   !.entry_map = EmptyMap, !.type = ""]
           st0 == [h |-> Append(st.h, base), co |-> Append(st.co, p),
                   ai |-> Append(st.ai, Null)]
           st1 == CloneList(st0, new_ptr, st.h[p].entry_list, 1, FALSE)
       IN  CloneList(st1, new_ptr, st.h[p].builtin_list, 1, TRUE)

\* The number of objects in the tree under p.
RECURSIVE TreeSize(_)
RECURSIVE TreeSizeList(_, _)
TreeSizeList(list, i) ==
  IF i > Len(list) THEN 0 ELSE TreeSize(list[i]) + TreeSizeList(list, i + 1)

TreeSize(p) ==
  1 + TreeSizeList(heap[p].entry_list, 1) + TreeSizeList(heap[p].builtin_list, 1)

Clone(p) ==
  /\ p \in Live
  /\ Len(heap) + TreeSize(p) <= MaxSyms
  /\ LET st == CloneInto([h |-> heap, co |-> cloneOf, ai |-> allocIn], p)
     IN  /\ heap' = st.h
         /\ cloneOf' = st.co
         /\ allocIn' = st.ai
         /\ declName' = declName \o [i \in 1..(Len(st.h) - Len(heap)) |-> ""]
  /\ UNCHANGED <<host, ioVars>>
  /\ UNCHANGED scopeFrame

(***************************************************************************)
(* SetValue / SetString / CopyValue of the primitive kinds.                *)
(***************************************************************************)
SetValue(p, in) ==
  /\ IsPrimitive(p)
  /\ CASE heap[p].kind = "double" ->
            heap' = [heap EXCEPT ![p].dval = in] /\ UNCHANGED host
       [] heap[p].kind = "string" ->
            heap' = [heap EXCEPT ![p].sval = to_string(in)] /\ UNCHANGED host
       [] heap[p].kind = "linked_double" ->
            host' = [host EXCEPT !.hd = in] /\ UNCHANGED heap
       [] heap[p].kind = "linked_string" ->
            host' = [host EXCEPT !.hs = to_string(in)] /\ UNCHANGED heap
  /\ UNCHANGED <<cloneOf, declName, allocIn, ioVars>>
  /\ UNCHANGED scopeFrame

SetString(p, in) ==
  /\ IsPrimitive(p)
  /\ CASE heap[p].kind = "double" ->
            heap' = [heap EXCEPT ![p].dval = from_string(in)] /\ UNCHANGED host
       [] heap[p].kind = "string" ->
            heap' = [heap EXCEPT ![p].sval = in] /\ UNCHANGED host
       [] heap[p].kind = "linked_double" ->
            host' = [host EXCEPT !.hd = from_string(in)] /\ UNCHANGED heap
       [] heap[p].kind = "linked_string" ->
            host' = [host EXCEPT !.hs = in] /\ UNCHANGED heap
  /\ UNCHANGED <<cloneOf, declName, allocIn, ioVars>>
  /\ UNCHANGED scopeFrame

CopyValue_Raw(p, in) ==
  /\ p \in Live /\ in \in Live
  /\ IsPrimitive(p) /\ IsPrimitive(in)
  /\ CASE heap[p].kind = "double" ->
            heap' = [heap EXCEPT ![p].dval = heap[in].dval] /\ UNCHANGED host
       [] heap[p].kind = "string" ->
            heap' = [heap EXCEPT ![p].sval = heap[in].sval] /\ UNCHANGED host
       [] heap[p].kind = "linked_double" ->
            host' = [host EXCEPT !.hd = heap[in].dval] /\ UNCHANGED heap
       [] heap[p].kind = "linked_string" ->
            host' = [host EXCEPT !.hs = heap[in].sval] /\ UNCHANGED heap
  /\ copyRet' = "true"
  /\ UNCHANGED <<cloneOf, declName, allocIn, os>>
  /\ UNCHANGED scopeFrame

\* The overrides of the primitive kinds assign and return true; the base
\* implementation, which every other kind inherits, returns false.
CopyValue(p, in) ==
  /\ p \in Live /\ in \in Live
  /\ IsPrimitive(p) => IsPrimitive(in)
  /\ CASE heap[p].kind = "double" ->
            heap' = [heap EXCEPT ![p].dval = AsDouble(in)] /\ UNCHANGED host
       [] heap[p].kind = "string" ->
            heap' = [heap EXCEPT ![p].sval = AsString(in)] /\ UNCHANGED host
       [] heap[p].kind = "linked_double" ->
            host' = [host EXCEPT !.hd = AsDouble(in)] /\ UNCHANGED heap
       [] heap[p].kind = "linked_string" ->
            host' = [host EXCEPT !.hs = AsString(in)] /\ UNCHANGED heap
       [] OTHER -> UNCHANGED <<heap, host>>
  /\ copyRet' = (IF IsPrimitive(p) THEN "true" ELSE "false")
  /\ UNCHANGED <<cloneOf, declName, allocIn, os>>
  /\ UNCHANGED scopeFrame

\* The host assigns to one of its variables directly.
HostWrite(hv, d, t) ==
  /\ host' = IF hv = "hd" THEN [host EXCEPT !.hd = d] ELSE [host EXCEPT !.hs = t]
  /\ host' # host
  /\ UNCHANGED <<heap, cloneOf, declName, allocIn, ioVars>>
  /\ UNCHANGED scopeFrame

(***************************************************************************)
(* Descriptions and defaults.                                              *)
(***************************************************************************)
SetDesc(p, in) ==
  /\ p \in Live
  /\ heap[p].desc # in
  /\ heap' = [heap EXCEPT ![p].desc = in]
  /\ UNCHANGED <<host, cloneOf, declName, allocIn, ioVars>>
  /\ UNCHANGED scopeFrame

SetDefault(p, in) ==
  /\ p \in Live
  /\ heap[p].default_val # in
  /\ heap' = [heap EXCEPT ![p].default_val = in]
  /\ UNCHANGED <<host, cloneOf, declName, allocIn, ioVars>>
  /\ UNCHANGED scopeFrame

\* The numeric constraints.
SetMin(p, min) ==
  /\ p \in Live
  /\ heap' = [heap EXCEPT ![p].range.lower = min]
  /\ UNCHANGED <<host, cloneOf, declName, allocIn, ioVars>>
  /\ UNCHANGED scopeFrame

SetMax(p, max) ==
  /\ p \in Live
  /\ heap' = [heap EXCEPT ![p].range.lower = max]
  /\ UNCHANGED <<host, cloneOf, declName, allocIn, ioVars>>
  /\ UNCHANGED scopeFrame

\* The heap after p->UpdateDefault(): a scope first updates its declared
\* entries (list from position i on), then clears its own default.
RECURSIVE UpdateDefaultIn(_, _)
RECURSIVE UpdateDefaultList(_, _, _)
UpdateDefaultList(h, list, i) ==
  IF i > Len(list) THEN h
  ELSE UpdateDefaultList(UpdateDefaultIn(h, list[i]), list, i + 1)

UpdateDefaultIn(h, p) ==
  LET h1 == IF h[p].kind = "scope" THEN UpdateDefaultList(h, h[p].entry_list, 1)
            ELSE h
  IN  [h1 EXCEPT ![p].default_val = ""]

UpdateDefault(p) ==
  /\ p \in Live
  /\ heap' = UpdateDefaultIn(heap, p)
  /\ heap' # heap
  /\ UNCHANGED <<host, cloneOf, declName, allocIn, ioVars>>
  /\ UNCHANGED scopeFrame

(***************************************************************************)
(* Write.  The output is a sequence of lines; a line records the Symbol    *)
(* that wrote it, its parts, the characters before the comment (text) and  *)
(* the comment.                                                            *)
(***************************************************************************)
RECURSIVE Spaces(_)
Spaces(n) == IF n <= 0 THEN "" ELSE " " \o Spaces(n - 1)

Padding_None(char_count, comment_offset) == ""

\* while (char_count++ < comment_offset) os << " ";
Padding(char_count, comment_offset) ==
  IF char_count < comment_offset THEN Spaces(comment_offset - char_count) ELSE ""

WrittenValue_Current(p) == AsString(p)

\* The default value if one has been provided, otherwise the current value.
WrittenValue(p) ==
  IF Len(heap[p].default_val) # 0 THEN heap[p].default_val ELSE AsString(p)

\* ConfigEntry::Write
EntryWrite(p, prefix, comment_offset) ==
  LET e == heap[p]
      value == WrittenValue(p)
      char_count == Len(prefix) + Len(e.name) + 3 + Len(value) + 1
      body == prefix \o e.name \o " = " \o value \o ";"
  IN  <<[sym |-> p, kind |-> "assign", indent |-> Len(prefix),
         name |-> e.name, value |-> value,
         text |-> IF Len(e.desc) # 0
                  THEN body \o Padding(char_count, comment_offset) ELSE body,
         comment |-> IF Len(e.desc) # 0 THEN "// " \o e.desc ELSE ""]>>

Indent_Same(prefix) == prefix

\* prefix+"  "
Indent(prefix) == prefix \o "  "

RECURSIVE Write(_, _, _)
RECURSIVE WriteContents(_, _, _, _)

\* ConfigScope::WriteContents, from position i of entry_list on.
WriteContents(s, i, prefix, comment_offset) ==
  IF i > Len(heap[s].entry_list) THEN <<>>
  ELSE Write(heap[s].entry_list[i], prefix, comment_offset)
         \o WriteContents(s, i + 1, prefix, comment_offset)

\* ConfigScope::Write for a scope, ConfigEntry::Write for the other kinds.
Write(p, prefix, comment_offset) ==
  IF heap[p].kind # "scope" THEN EntryWrite(p, prefix, comment_offset)
  ELSE LET e == heap[p]
           char_count == Len(prefix) + Len(e.name) + 5
           body == prefix \o e.name \o " = { "
       IN  <<[sym |-> p, kind |-> "open", indent |-> Len(prefix),
              name |-> e.name, value |-> "",
              text |-> IF Len(e.desc) # 0
                       THEN body \o Padding(char_count, comment_offset) ELSE body,
              comment |-> IF Len(e.desc) # 0 THEN "// " \o e.desc ELSE ""]>>
             \o WriteContents(p, 1, Indent(prefix), comment_offset)
             \o <<[sym |-> p, kind |-> "close", indent |-> Len(prefix),
                   name |-> "", value |-> "", text |-> prefix \o "}",
                   comment |-> ""]>>

\* The default of the comment_offset parameter.
comment_offset_default == 40

\* The comment columns and prefixes that callers of Write pass.
Offsets == {MaxOffset, comment_offset_default}

Prefixes == {"", "  "}

\* A call of Write on a fresh stream.
WriteOut(p, prefix, comment_offset) ==
  /\ p \in Live
  /\ os' = Write(p, prefix, comment_offset)
  /\ UNCHANGED <<heap, host, cloneOf, declName, allocIn, copyRet>>
  /\ UNCHANGED scopeFrame

(***************************************************************************)
(* The Function Adapter (EmplodeTools).  A value is a tagged primitive; a  *)
(* Symbol holding one adds the name, owner and temporary flag.             *)
(***************************************************************************)
DV(d) == [kind |-> "double", dval |-> d, sval |-> ""]

SV(t) == [kind |-> "string", dval |-> 0, sval |-> t]

\* A native result that is already a Symbol pointer.
PV(p) == [kind |-> "symbol", dval |-> p, sval |-> ""]

\* A deleted object: its storage may be handed out again.
Freed == NewEntry("freed", "", Null, "")

\* Storage at the end of the heap is returned to the allocator.
RECURSIVE Trim(_)
Trim(h) ==
  IF Len(h) > 0 /\ h[Len(h)].kind = "freed" THEN Trim(SubSeq(h, 1, Len(h) - 1))
  ELSE h

\* emp::Ptr::Delete on each member of S.
Delete(h, S) == Trim([p \in 1..Len(h) |-> IF p \in S THEN Freed ELSE h[p]])

\* A history kept in step with a heap of n objects.
Fit(hist, n, none) == [p \in 1..n |-> IF p <= Len(hist) THEN hist[p] ELSE none]

\* emp::NewPtr<T>(...): obj is placed in storage that no live object has.
NewPtr(h, obj) == [h |-> Append(h, obj), ptr |-> Len(h) + 1]

\* Symbol_Var<VALUE_T>(name, value, desc, scope)
Symbol_Var(name, value, desc, scope) ==
  [NewEntry(value.kind, name, scope, "") EXCEPT
     !.desc = desc, !.dval = value.dval, !.sval = value.sval]

SetTemporary_Not(sym) == sym

\* Symbol::SetTemporary()
SetTemporary(sym) == [sym EXCEPT !.is_temporary = TRUE]

\* Allocates a temporary Symbol holding value in heap h.
MakeTempSymbol(h, value) ==
  NewPtr(h, SetTemporary(Symbol_Var("__Temp", value, "", Null)))

ConvertReturn_Wrap(h, return_value) ==
  MakeTempSymbol(h, IF return_value.kind = "symbol"
                    THEN DV(return_value.dval) ELSE return_value)

\* A Symbol pointer is passed through; text and arithmetic results are wrapped.
ConvertReturn(h, return_value) ==
  IF return_value.kind = "symbol"
  THEN [h |-> h, ptr |-> return_value.dval]
  ELSE MakeTempSymbol(h, return_value)

\* Symbol::As<T>(): the Symbol's value coerced to the parameter's type.
As(sym, T) ==
  IF T = "double"
  THEN DV(IF sym.kind = "double" THEN sym.dval ELSE from_string(sym.sval))
  ELSE SV(IF sym.kind = "string" THEN sym.sval ELSE to_string(sym.dval))

\* The host callables that get wrapped: their names, ...
NativeNames == {"seven", "label", "held", "twice", "add", "sub", "pick", "count"}

\* ... whether the only parameter is the whole argument list, ...
TakesList(name) == name = "count"

\* ... the types of the positional parameters (after any bound object), ...
ParamTypes(name) ==
  CASE name = "twice" -> <<"double">>
    [] name = "add" -> <<"double", "double">>
    [] name = "sub" -> <<"double", "double">>
    [] name = "pick" -> <<"string", "double">>
    [] OTHER -> <<>>

\* The Symbol that "held" hands out: the newest one that is not a temporary.
Held ==
  CHOOSE p \in Live :
    /\ ~heap[p].is_temporary
    /\ \A q \in Live : ~heap[q].is_temporary => q <= p

\* ... and what they compute.
Fun(name, p) ==
  CASE name = "seven" -> DV(7)
    [] name = "label" -> SV("a")
    [] name = "held" -> PV(Held)
    [] name = "twice" -> DV(2 * p[1].dval)
    [] name = "add" -> DV(p[1].dval + p[2].dval)
    [] name = "sub" -> DV(p[1].dval - p[2].dval)
    [] name = "pick" -> IF p[2].dval = 0 THEN SV(p[1].sval) ELSE SV(to_string(p[2].dval))

FunList(name, args) == DV(Len(args))

\* emp::ValPackCount<n>: the indices 0 .. n-1.
ValPackCount(n) == [i \in 1..n |-> i - 1]

\* The diagnostic written to std::cerr.
ArgCountError(name, expected, received) ==
  [name |-> name, expected |-> expected, received |-> received]

NoCall ==
  [name |-> "", shape |-> "none", args |-> <<>>, aborted |-> FALSE,
   errs |-> <<>>, calls |-> 0, params |-> <<>>, reads |-> {}, result |-> <<>>,
   ret |-> Null]

\* The process is gone: an emp_assert fired, or an invalid read crashed it.
Aborted(name, shape, args, errs, reads) ==
  [call |-> [name |-> name, shape |-> shape, args |-> args, aborted |-> TRUE,
             errs |-> errs, calls |-> 0, params |-> <<>>, reads |-> reads,
             result |-> <<>>, ret |-> Null],
   h |-> heap]

\* The callable ran once on params and its result was converted: ret is the
\* Symbol pointer handed back and result what that Symbol holds.
Returned(name, shape, args, errs, reads, params, value) ==
  LET cr == ConvertReturn(heap, value)
  IN  [call |-> [name |-> name, shape |-> shape, args |-> args,
                 aborted |-> FALSE, errs |-> errs, calls |-> 1,
                 params |-> params, reads |-> reads,
                 result |-> <<cr.h[cr.ptr]>>, ret |-> cr.ptr],
       h |-> cr.h]

\* The values an invalid read can produce for a parameter of each type.
Garbage(T) == IF T = "double" THEN {DV(0), DV(1)} ELSE {SV(""), SV("a")}

GarbageFor(name) ==
  {g \in [1..Len(ParamTypes(name)) -> Garbage("double") \cup Garbage("string")] :
     \A j \in 1..Len(ParamTypes(name)) : g[j].kind = ParamTypes(name)[j]}

\* args[pos[j]]->As<types[j]>() for each parameter j.  A position past the end
\* of args is an invalid read: emp::vector asserts on it in a debug build and
\* the read is undefined otherwise (a crash, or any value).
Positional(name, shape, args, types, pos, errs, crash, garbage) ==
  LET reads == Range(pos)
      invalid == \E k \in reads : k >= Len(args)
      params == [j \in 1..Len(types) |->
                   IF pos[j] < Len(args) THEN As(args[pos[j] + 1], types[j])
                   ELSE garbage[j]]
  IN  IF invalid /\ (~ndebug \/ crash)
      THEN Aborted(name, shape, args, errs, reads)
      ELSE Returned(name, shape, args, errs, reads, params, Fun(name, params))

\* WrapFunction_impl<RETURN_T(), ValPack<>>::ConvertFun
ConvertFun0(name, args) ==
  IF ~ndebug /\ Len(args) # 0
  THEN Aborted(name, "free", args, <<>>, {})
  ELSE Returned(name, "free", args, <<>>, {}, <<>>, Fun(name, <<>>))

FreeArgIndex_Same(iv) == iv

\* args[INDEX_VALS+1]
FreeArgIndex(iv) == iv + 1

\* WrapFunction_impl<RETURN_T(PARAM1_T, PARAM_Ts...), ValPack<INDEX_VALS...>>::ConvertFun
ConvertFun(name, args, crash, garbage) ==
  IF TakesList(name)
  THEN Returned(name, "free", args, <<>>, {}, <<>>, FunList(name, args))
  ELSE LET types == ParamTypes(name)
           NUM_PARAMS == Len(types)
           INDEX_VALS == ValPackCount(NUM_PARAMS - 1)
           pos == <<0>> \o [j \in 1..Len(INDEX_VALS) |-> FreeArgIndex(INDEX_VALS[j])]
           errs == IF Len(args) # NUM_PARAMS
                   THEN <<ArgCountError(name, NUM_PARAMS, Len(args))>>
                   ELSE <<>>
       IN  Positional(name, "free", args, types, pos, errs, crash, garbage)

\* args[INDEX_VALS]
MemberArgIndex(iv) == iv

\* WrapFunction_impl<...>::ConvertMemberFun
ConvertMemberFun(name, args, crash, garbage) ==
  LET types == ParamTypes(name)
  IN  IF ~TakesList(name) /\ Len(types) = 0
      THEN LET errs == IF Len(args) # 0
                       THEN <<ArgCountError(name, 0, Len(args))>>
                       ELSE <<>>
           IN  Returned(name, "member", args, errs, {}, <<>>, Fun(name, <<>>))
      ELSE IF TakesList(name)
      THEN Returned(name, "member", args, <<>>, {}, <<>>, FunList(name, args))
      ELSE LET NUM_PARAMS == Len(types)
               INDEX_VALS == ValPackCount(NUM_PARAMS)
               pos == [j \in 1..Len(INDEX_VALS) |-> MemberArgIndex(INDEX_VALS[j])]
               errs == IF Len(args) # NUM_PARAMS
                       THEN <<ArgCountError(name, NUM_PARAMS, Len(args))>>
                       ELSE <<>>
           IN  Positional(name, "member", args, types, pos, errs, crash, garbage)

\* The adapter WrapFunction(name, fun) returns, applied to args.
WrapFunction(name, args, crash, garbage) ==
  IF ~TakesList(name) /\ Len(ParamTypes(name)) = 0
  THEN ConvertFun0(name, args)
  ELSE ConvertFun(name, args, crash, garbage)

\* The adapter WrapMemberFunction(class_type, name, fun) returns, applied to
\* an object of class_type and args.
WrapMemberFunction(name, args, crash, garbage) ==
  ConvertMemberFun(name, args, crash, garbage)

\* The Symbols an argument list is made of.
ArgSyms ==
  {SetTemporary(Symbol_Var("__Temp", DV(d), "", Null)) : d \in 0..MaxArgVal}
    \cup {SetTemporary(Symbol_Var("__Temp", SV(t), "", Null)) : t \in {"1", "a"}}

ArgLists == UNION {[1..k -> ArgSyms] : k \in 0..MaxArgs}

\* What an invocation leaves of the scopes' state.
invokeFrame == <<host, ioVars>>

\* The heap after an invocation, with the histories kept in step.
HeapBecomes(h) ==
  /\ heap' = h
  /\ cloneOf' = Fit(cloneOf, Len(h), Null)
  /\ declName' = Fit(declName, Len(h), "")
  /\ allocIn' = Fit(allocIn, Len(h), Null)

(***************************************************************************)
(* ~ConfigScope: Delete each declared entry, then each built-in, in order. *)
(* Deleting an entry runs its own destructor first.  Destructor(p) is the  *)
(* sequence of pointers that the destructor of p passes to Delete.         *)
(***************************************************************************)
RECURSIVE Destructor(_)
RECURSIVE DestructList(_, _)

DestructList(list, i) ==
  IF i > Len(list) THEN <<>>
  ELSE (IF IsScope(list[i]) THEN Destructor(list[i]) ELSE <<>>)
         \o <<list[i]>> \o DestructList(list, i + 1)

\* A destructor that forgets the built-ins.
Destructor_NoBuiltins(p) == DestructList(heap[p].entry_list, 1)

Destructor(p) ==
  DestructList(heap[p].entry_list, 1) \o DestructList(heap[p].builtin_list, 1)

\* The number of times x occurs in a sequence.
Count(seq, x) == Cardinality({i \in 1..Len(seq) : seq[i] = x})

\* The owner of scope p deletes it.  A pointer deleted twice is undefined
\* behaviour: the heap may then be left in any state, here the one where
\* the deletions took effect or the one where nothing is left.
Destroy(p) ==
  /\ IsScope(p)
  /\ LET order == Destructor(p) \o <<p>>
         twice == \E x \in Range(order) : Count(order, x) > 1
     IN  \E lost \in (IF twice THEN BOOLEAN ELSE {FALSE}) :
           HeapBecomes(IF lost THEN <<>> ELSE Delete(heap, Range(order)))
  /\ UNCHANGED invokeFrame
  /\ UNCHANGED scopeFrame

\* An adapter is invoked when no earlier result is pending.
InvokeFree(name, args) ==
  /\ call = NoCall
  /\ Len(heap) < MaxSyms
  /\ \E crash \in BOOLEAN, garbage \in GarbageFor(name) :
       LET out == WrapFunction(name, args, crash, garbage)
       IN  call' = out.call /\ HeapBecomes(out.h)
  /\ UNCHANGED buildFrame
  /\ UNCHANGED invokeFrame

InvokeMember(name, args) ==
  /\ call = NoCall
  /\ Len(heap) < MaxSyms
  /\ \E crash \in BOOLEAN, garbage \in GarbageFor(name) :
       LET out == WrapMemberFunction(name, args, crash, garbage)
       IN  call' = out.call /\ HeapBecomes(out.h)
  /\ UNCHANGED buildFrame
  /\ UNCHANGED invokeFrame

\* The caller is done with the result Symbol and deletes it if it is a
\* temporary.
DeleteResult ==
  /\ call # NoCall
  /\ ~call.aborted
  /\ call' = NoCall
  /\ HeapBecomes(IF heap[call.ret].is_temporary
                 THEN Delete(heap, {call.ret}) ELSE heap)
  /\ UNCHANGED buildFrame
  /\ UNCHANGED invokeFrame

\* The caller keeps the result Symbol for later use.
KeepResult ==
  /\ call # NoCall
  /\ ~call.aborted
  /\ call' = NoCall
  /\ UNCHANGED buildFrame
  /\ UNCHANGED wrapFrame

InitWrap ==
  /\ ndebug \in BOOLEAN
  /\ call = NoCall

NextWrap ==
  \/ \E name \in NativeNames, args \in ArgLists : InvokeFree(name, args)
  \/ \E name \in NativeNames, args \in ArgLists : InvokeMember(name, args)
  \/ DeleteResult

\* The callables that take no argument: one for each kind of return value.
ZeroArgNatives ==
  {name \in NativeNames : ~TakesList(name) /\ Len(ParamTypes(name)) = 0}

(***************************************************************************)
(* Population: a vector of organism pointers.  An organism pointer is a    *)
(* record: is_empty is what the virtual IsEmpty() answers, id tells the    *)
(* objects apart (for an EmptyOrganism, id is the Population it is a       *)
(* member of), clone_of is the organism a clone was made from.  Positions  *)
(* are size_t values, counted from 0.                                      *)
(***************************************************************************)
size_max == 2^SizeBits - 1

\* Arithmetic on size_t.
Wrap(n) == n % (2^SizeBits)

Org(id) == [is_empty |-> FALSE, id |-> id, clone_of |-> Null]

\* The address of the empty_org member of Population k.
EmptyOrgOf(k) == [is_empty |-> TRUE, id |-> k, clone_of |-> Null]

\* No organism, and no iterator.
NoOrg == [is_empty |-> FALSE, id |-> Null, clone_of |-> Null]

NoIter == [pop_ptr |-> Null, pos |-> 0, skip_empty |-> FALSE]

\* The organisms the host creates and hands to SetOrg.
Organisms == {Org(id) : id \in 1..MaxOrgs}

\* emp::vector::resize(n, x).
resize(v, n, x) == [i \in 1..n |-> IF i <= Len(v) THEN v[i] ELSE x]

\* Population(in_name, in_id, pop_size), constructed at address k.
Population(k, in_name, in_id, pop_size) ==
  [name |-> in_name, pop_id |-> in_id,
   orgs |-> resize(<<>>, pop_size, EmptyOrgOf(k)),
   num_orgs |-> 0, max_orgs |-> size_max]

GetSize(P) == Len(P.orgs)

GetNumOrgs(P) == P.num_orgs

IsEmptyAt(P, pos) == P.orgs[pos + 1].is_empty

IsOccupiedAt(P, pos) == ~P.orgs[pos + 1].is_empty

\* SetOrg that forgets to count.
SetOrgIn_NoCount(P, pos, org_ptr) == [P EXCEPT !.orgs[pos + 1] = org_ptr]

SetOrgIn(P, pos, org_ptr) ==
  [P EXCEPT !.orgs[pos + 1] = org_ptr, !.num_orgs = Wrap(@ + 1)]

\* The Population that ExtractOrg leaves at address k.
ExtractOrgIn(P, k, pos) ==
  [P EXCEPT !.orgs[pos + 1] = EmptyOrgOf(k), !.num_orgs = Wrap(@ - 1)]

ResizeIn(P, k, new_size) ==
  [P EXCEPT !.orgs = resize(@, new_size, EmptyOrgOf(k))]

\* Iterator(_pop, _pos, _skip) before its body runs.
IteratorAt(pop_ptr, pos, skip_empty) ==
  [pop_ptr |-> pop_ptr, pos |-> pos, skip_empty |-> skip_empty]

\* Iterator members that read the Population.
PopSize(I) == Len(pops[I.pop_ptr].orgs)

OrgPtr(I) == pops[I.pop_ptr].orgs[I.pos + 1]

\* while (pos < PopSize() && OrgPtr()->IsEmpty()) ++pos;
RECURSIVE ToOccupied(_)
ToOccupied(I) ==
  IF I.pos < PopSize(I) /\ OrgPtr(I).is_empty
  THEN ToOccupied([I EXCEPT !.pos = Wrap(@ + 1)])
  ELSE I

\* A constructor that does not look for an occupied cell.
Iterator_AsGiven(pop_ptr, pos, skip_empty) ==
  IteratorAt(pop_ptr, pos, skip_empty)

Iterator(pop_ptr, pos, skip_empty) ==
  IF skip_empty THEN ToOccupied(IteratorAt(pop_ptr, pos, skip_empty))
  ELSE IteratorAt(pop_ptr, pos, skip_empty)

\* SkipEmpty(bool in).
SkipEmpty(I, in) ==
  LET J == [I EXCEPT !.skip_empty = in]
  IN  IF J.skip_empty THEN ToOccupied(J) ELSE J

\* operator++, prefix and postfix: what becomes of *this.
Increment(I) ==
  LET J == [I EXCEPT !.pos = Wrap(@ + 1)]
  IN  IF J.skip_empty THEN ToOccupied(J) ELSE J

\* while (pos < PopSize() && OrgPtr()->IsEmpty()) --pos;
RECURSIVE BackUp(_)
BackUp(I) ==
  IF I.pos < PopSize(I) /\ OrgPtr(I).is_empty
  THEN BackUp([I EXCEPT !.pos = Wrap(@ - 1)])
  ELSE I

\* operator--, prefix and postfix, of Iterator and ConstIterator: what
\* becomes of *this.
Decrement(I) ==
  LET J == [I EXCEPT !.pos = Wrap(@ - 1)]
  IN  IF J.skip_empty THEN BackUp(J) ELSE J

\* operator== and operator!=.
Equal(I, in) == I.pop_ptr = in.pop_ptr /\ I.pos = in.pos

NotEqual(I, in) == I.pop_ptr # in.pop_ptr \/ I.pos # in.pos

begin_alive == Iterator(1, 0, TRUE)

end_alive == Iterator(1, GetSize(pops[1]), TRUE)

\* for (auto it = pop.begin_alive(); it != pop.end_alive(); ++it) { ... }:
\* the initialisation, and one turn of the loop, whose body notes the cell.
BeginAlive ==
  /\ it = NoIter
  /\ it' = begin_alive
  /\ visited' = <<>>
  /\ UNCHANGED <<pops, out_org>>
  /\ UNCHANGED <<scopeVars, wrapVars, cpuVars>>

AliveStep ==
  /\ it # NoIter
  /\ NotEqual(it, end_alive)
  /\ visited' = Append(visited, it.pos)
  /\ it' = Increment(it)
  /\ UNCHANGED <<pops, out_org>>
  /\ UNCHANGED <<scopeVars, wrapVars, cpuVars>>

\* Population::IteratorAt(pos, skip), and the operators applied to the
\* iterator it returned.
MakeIterator(pos, skip) ==
  /\ it' = Iterator(1, pos, skip)
  /\ UNCHANGED <<pops, out_org, visited>>
  /\ UNCHANGED <<scopeVars, wrapVars, cpuVars>>

IteratorBecomes(I) ==
  /\ it # NoIter
  /\ it' = I
  /\ UNCHANGED <<pops, out_org, visited>>
  /\ UNCHANGED <<scopeVars, wrapVars, cpuVars>>

PlusPlus == IteratorBecomes(Increment(it))

MinusMinus == IteratorBecomes(Decrement(it))

SetSkipEmpty(in) == IteratorBecomes(SkipEmpty(it, in))

\* The operations on the constructed Population, under their assertions.
SetOrg(pos, org_ptr) ==
  /\ pos < GetSize(pops[1])
  /\ IsEmptyAt(pops[1], pos)
  /\ ~org_ptr.is_empty
  /\ pops' = [pops EXCEPT ![1] = SetOrgIn(@, pos, org_ptr)]
  /\ UNCHANGED <<out_org, it, visited>>
  /\ UNCHANGED <<scopeVars, wrapVars, cpuVars>>

ExtractOrg(pos) ==
  /\ pos < GetSize(pops[1])
  /\ IsOccupiedAt(pops[1], pos)
  /\ out_org' = pops[1].orgs[pos + 1]
  /\ pops' = [pops EXCEPT ![1] = ExtractOrgIn(@, 1, pos)]
  /\ UNCHANGED <<it, visited>>
  /\ UNCHANGED <<scopeVars, wrapVars, cpuVars>>

Resize(new_size) ==
  /\ pops[1].num_orgs = 0
  /\ pops' = [pops EXCEPT ![1] = ResizeIn(@, 1, new_size)]
  /\ UNCHANGED <<out_org, it, visited>>
  /\ UNCHANGED <<scopeVars, wrapVars, cpuVars>>

PushEmpty ==
  /\ GetSize(pops[1]) < MaxPop
  /\ LET pos == GetSize(pops[1])
     IN  /\ pops' = [pops EXCEPT ![1] = ResizeIn(@, 1, GetSize(@) + 1)]
         /\ it' = IteratorAt(1, pos, FALSE)
  /\ UNCHANGED <<out_org, visited>>
  /\ UNCHANGED <<scopeVars, wrapVars, cpuVars>>

\* Organism::Clone for the organism in cell i of the Population being
\* copied to address k: a new object, told apart by its address.
CloneOrg(org_ptr, k, i) ==
  [is_empty |-> FALSE, id |-> MaxOrgs + (k - 2) * MaxPop + i,
   clone_of |-> org_ptr.id]

\* Population(const Population & in_pop), constructed at address k.  The
\* members it does not name keep their default member initializers.
PopulationCopy(k, in_pop) ==
  [name |-> in_pop.name, pop_id |-> in_pop.pop_id,
   orgs |-> [i \in 1..Len(in_pop.orgs) |->
               IF in_pop.orgs[i].is_empty THEN EmptyOrgOf(k)
               ELSE CloneOrg(in_pop.orgs[i], k, i)],
   num_orgs |-> 0, max_orgs |-> size_max]

\* The constructed Population is copied.
CopyPopulation ==
  /\ Len(pops) = 1
  /\ pops' = Append(pops, PopulationCopy(Len(pops) + 1, pops[1]))
  /\ UNCHANGED <<out_org, it, visited>>
  /\ UNCHANGED <<scopeVars, wrapVars, cpuVars>>

\* The host changes max_orgs through the variable linked in SetupConfig.
SetMaxOrgs(n) ==
  /\ pops' = [pops EXCEPT ![1].max_orgs = n]
  /\ UNCHANGED <<out_org, it, visited>>
  /\ UNCHANGED <<scopeVars, wrapVars, cpuVars>>

(***************************************************************************)
(* VirtualCPU_Inst_Math: the math instructions of a VirtualCPUOrg.  A      *)
(* register holds an unsigned value of RegBits bits; an instruction        *)
(* carries the vector of nops that follow it.                              *)
(***************************************************************************)
RegValues == 0..(2^RegBits - 1)

\* Arithmetic on a register value.
WrapReg(n) == n % (2^RegBits)

\* The bitwise operators, from the lowest of w bits up.
RECURSIVE BitAnd(_, _, _)
BitAnd(a, b, w) ==
  IF w = 0 THEN 0
  ELSE (a % 2) * (b % 2) + 2 * BitAnd(a \div 2, b \div 2, w - 1)

BitNot(a) == 2^RegBits - 1 - a

NoInst == [name |-> "", nop_vec |-> <<>>]

\* The nop vectors an instruction is executed with.
NopVecs == {<<>>} \cup {<<t>> : t \in 0..(NumRegs - 1)}

\* An index that ignores the nop modifier.
Idx_NoNop(nop_vec) == 1

\* size_t idx = inst.nop_vec.empty() ? 1 : inst.nop_vec[0];
Idx(nop_vec) == IF nop_vec = <<>> THEN 1 ELSE nop_vec[1]

func_inc(hw, nop_vec) == [hw EXCEPT ![Idx(nop_vec)] = WrapReg(@ + 1)]

func_dec(hw, nop_vec) == [hw EXCEPT ![Idx(nop_vec)] = WrapReg(@ - 1)]

func_shift_r(hw, nop_vec) == [hw EXCEPT ![Idx(nop_vec)] = @ \div 2]

func_shift_l(hw, nop_vec) == [hw EXCEPT ![Idx(nop_vec)] = WrapReg(@ * 2)]

func_add(hw, nop_vec) == [hw EXCEPT ![Idx(nop_vec)] = WrapReg(hw[1] + hw[2])]

func_sub(hw, nop_vec) == [hw EXCEPT ![Idx(nop_vec)] = WrapReg(hw[1] - hw[2])]

func_nand(hw, nop_vec) ==
  [hw EXCEPT ![Idx(nop_vec)] = BitNot(BitAnd(hw[1], hw[2], RegBits))]

\* The action map calls the function registered under name.
Execute(name, nop_vec, hw) ==
  /\ regs' = hw
  /\ inst' = [name |-> name, nop_vec |-> nop_vec]
  /\ UNCHANGED <<scopeVars, wrapVars, popVars>>

Inc(nop_vec) == Execute("Inc", nop_vec, func_inc(regs, nop_vec))

Dec(nop_vec) == Execute("Dec", nop_vec, func_dec(regs, nop_vec))

ShiftR(nop_vec) == Execute("ShiftR", nop_vec, func_shift_r(regs, nop_vec))

ShiftL(nop_vec) == Execute("ShiftL", nop_vec, func_shift_l(regs, nop_vec))

AddInst(nop_vec) == Execute("Add", nop_vec, func_add(regs, nop_vec))

Sub(nop_vec) == Execute("Sub", nop_vec, func_sub(regs, nop_vec))

Nand(nop_vec) == Execute("Nand", nop_vec, func_nand(regs, nop_vec))

(***************************************************************************)
(* The configuration environment: a root scope, then any sequence of       *)
(* declarations, renamings, assignments and clones.                        *)
(***************************************************************************)
InitScope ==
  /\ heap = <<NewEntry("scope", "root", Null, "")>>
  /\ host = [hd |-> 0, hs |-> ""]
  /\ cloneOf = <<Null>>
  /\ declName = <<"">>
  /\ allocIn = <<Null>>
  /\ copyRet = "none"
  /\ os = <<>>

\* The entries that some scope holds (every object but the roots of trees).
Owned == UNION {Children(s) : s \in ScopePtrs}

NextScope ==
  \/ \E s \in ScopePtrs, name \in Names : AddValueVar(s, name)
  \/ \E s \in ScopePtrs, name \in Names : AddScope(s, name)
  \/ \E s \in ScopePtrs, name \in Names : AddBuiltinFunction(s, name)
  \/ \E p \in Owned, name \in Names : SetName(p, name)
  \/ \E p \in Ptrs : Clone(p)

NextValue ==
  \/ \E s \in ScopePtrs, name \in Names, hv \in HostVars, default_val \in Strings :
       LinkVar(s, name, hv, default_val)
  \/ \E s \in ScopePtrs, name \in Names : AddStringVar(s, name)
  \/ \E s \in ScopePtrs, name \in Names : AddValueVar(s, name)
  \/ \E s \in ScopePtrs, name \in Names : AddScope(s, name)
  \/ \E p \in Ptrs : Clone(p)
  \/ \E p \in Ptrs, d \in Doubles : SetValue(p, d)
  \/ \E p \in Ptrs, t \in Strings : SetString(p, t)
  \/ \E p \in Ptrs, q \in Ptrs : CopyValue(p, q)

\* The name is not in use in scope s.
Unused(s, name) == heap[s].entry_map[name] = Null

\* The scopes that no scope holds: the ones a caller writes out or destroys.
Roots == {p \in ScopePtrs : \A s \in ScopePtrs : p \notin Children(s)}

\* The root scope with primitive entries, each declared under a name of its
\* own, assigned to through the entries and, for linked ones, by the host
\* behind their back.
NextAssign ==
  \/ \E name \in Names, hv \in HostVars, default_val \in Strings :
       Unused(Null + 1, name) /\ LinkVar(Null + 1, name, hv, default_val)
  \/ \E name \in Names : Unused(Null + 1, name) /\ AddStringVar(Null + 1, name)
  \/ \E name \in Names : Unused(Null + 1, name) /\ AddValueVar(Null + 1, name)
  \/ \E hv \in HostVars, d \in Doubles, t \in Strings : HostWrite(hv, d, t)
  \/ \E p \in Live, d \in Doubles : SetValue(p, d)
  \/ \E p \in Live, t \in Strings : SetString(p, t)
  \/ \E p \in Live, q \in Live : CopyValue(p, q)

\* Nothing has been written yet.
Constructing == os = <<>>

\* Declarations while the environment is constructed, then the scopes written
\* out.
NextWrite ==
  \/ \E s \in ScopePtrs, name \in Names : Constructing /\ AddValueVar(s, name)
  \/ \E s \in ScopePtrs, name \in Names : Constructing /\ AddScope(s, name)
  \/ \E s \in ScopePtrs, name \in Names :
       Constructing /\ AddBuiltinFunction(s, name)
  \/ \E p \in Roots, prefix \in Prefixes, comment_offset \in Offsets :
       WriteOut(p, prefix, comment_offset)

\* Declarations and descriptions, then the scopes written out.
NextComment ==
  \/ \E s \in ScopePtrs, name \in Names :
       Constructing /\ Unused(s, name) /\ AddValueVar(s, name)
  \/ \E s \in ScopePtrs, name \in Names :
       Constructing /\ Unused(s, name) /\ AddScope(s, name)
  \/ \E p \in Live : Constructing /\ SetDesc(p, "d")
  \/ \E p \in Roots, comment_offset \in Offsets : WriteOut(p, "", comment_offset)

\* Declarations, assignments and defaults, then the scopes written out.
NextRound ==
  \/ \E s \in ScopePtrs, name \in Names :
       Constructing /\ Unused(s, name) /\ AddValueVar(s, name)
  \/ \E s \in ScopePtrs, name \in Names :
       Constructing /\ Unused(s, name) /\ AddStringVar(s, name)
  \/ \E s \in ScopePtrs, name \in Names :
       Constructing /\ Unused(s, name) /\ AddScope(s, name)
  \/ \E p \in Live, d \in Doubles : Constructing /\ SetValue(p, d)
  \/ \E p \in Live, t \in Strings : Constructing /\ SetString(p, t)
  \/ \E p \in Live : Constructing /\ IsPrimitive(p) /\ SetDefault(p, to_string(MaxVal))
  \/ \E p \in Live : Constructing /\ UpdateDefault(p)
  \/ \E p \in Roots : WriteOut(p, "", comment_offset_default)

\* Host variables linked into the root scope, with defaults supplied.
NextLink ==
  \/ \E name \in Names, hv \in HostVars, default_val \in Strings :
       Unused(Null + 1, name) /\ LinkVar(Null + 1, name, hv, default_val)
  \/ \E name \in Names, hv \in HostVars, default_val \in Strings :
       Unused(Null + 1, name) /\ LinkFuns(Null + 1, name, hv, default_val)
  \/ \E hv \in HostVars, d \in Doubles, t \in Strings : HostWrite(hv, d, t)
  \/ \E p \in Live, t \in Strings : heap[p].scope # Null /\ SetDefault(p, t)

\* Trees of declared and built-in entries, cloned and destroyed by their
\* owners.
NextDestroy ==
  \/ \E s \in ScopePtrs, name \in Names : AddValueVar(s, name)
  \/ \E s \in ScopePtrs, name \in Names : AddScope(s, name)
  \/ \E s \in ScopePtrs, name \in Names : AddBuiltinFunction(s, name)
  \/ \E p \in Live : Clone(p)
  \/ \E p \in Roots : Destroy(p)

\* The Populations that SetOrg and ExtractOrg calls lead to, at address 1.
Cells == Organisms \cup {EmptyOrgOf(1)}

Populations ==
  {[Population(1, "pop", 0, Len(orgs)) EXCEPT
      !.orgs = orgs,
      !.num_orgs = Cardinality({i \in 1..Len(orgs) : ~orgs[i].is_empty})] :
     orgs \in UNION {[1..n -> Cells] : n \in 0..MaxPop}}

\* A loop over the living organisms.
NextAlive == BeginAlive \/ AliveStep

\* Iterators made and moved.
NextIter ==
  \/ \E pos \in 0..MaxPop, skip \in BOOLEAN : MakeIterator(pos, skip)
  \/ PlusPlus
  \/ MinusMinus
  \/ \E in \in BOOLEAN : SetSkipEmpty(in)

\* A Population driven by its owner.
NextPop ==
  \/ \E pos \in 0..(MaxPop - 1), org_ptr \in Organisms : SetOrg(pos, org_ptr)
  \/ \E pos \in 0..(MaxPop - 1) : ExtractOrg(pos)
  \/ \E new_size \in 0..MaxPop : Resize(new_size)
  \/ PushEmpty

\* No copy has been made yet.
Uncopied == Len(pops) = 1

\* A Population filled, configured and then copied.
NextCopy ==
  \/ \E pos \in 0..(MaxPop - 1), org_ptr \in Organisms :
       Uncopied /\ SetOrg(pos, org_ptr)
  \/ \E pos \in 0..(MaxPop - 1) : Uncopied /\ ExtractOrg(pos)
  \/ \E n \in {MaxPop, size_max} : Uncopied /\ SetMaxOrgs(n)
  \/ CopyPopulation

\* The structure types that scopes are tagged with ("" is a plain namespace).
Types == {"", "T"}

\* Scopes with descriptions and structure types, declared and cloned.
NextType ==
  \/ \E s \in ScopePtrs, name \in Names, type \in Types :
       Unused(s, name) /\ AddScopeOfType(s, name, "d", type)
  \/ \E s \in ScopePtrs, name \in Names : Unused(s, name) /\ AddValueVar(s, name)
  \/ \E p \in Live : Clone(p)

\* The root scope and its entries given numeric constraints and values.
NextRange ==
  \/ \E name \in Names : Unused(Null + 1, name) /\ AddValueVar(Null + 1, name)
  \/ \E p \in Live, min \in Doubles : SetMin(p, min)
  \/ \E p \in Live, max \in Doubles : SetMax(p, max)
  \/ \E p \in Live, d \in Doubles : heap[p].scope # Null /\ SetValue(p, d)

\* A VirtualCPUOrg executing math instructions.
NextCPU ==
  \/ \E nop_vec \in NopVecs : Inc(nop_vec)
  \/ \E nop_vec \in NopVecs : Dec(nop_vec)
  \/ \E nop_vec \in NopVecs : ShiftR(nop_vec)
  \/ \E nop_vec \in NopVecs : ShiftL(nop_vec)
  \/ \E nop_vec \in NopVecs : AddInst(nop_vec)
  \/ \E nop_vec \in NopVecs : Sub(nop_vec)
  \/ \E nop_vec \in NopVecs : Nand(nop_vec)

\* Invocations whose results are deleted or kept, among declarations and
\* clones.
NextTemp ==
  \/ \E name \in ZeroArgNatives : InvokeFree(name, <<>>)
  \/ \E name \in ZeroArgNatives : InvokeMember(name, <<>>)
  \/ DeleteResult
  \/ KeepResult
  \/ \E s \in ScopePtrs, name \in Names : AddValueVar(s, name)
  \/ \E s \in ScopePtrs, name \in Names : AddScope(s, name)
  \/ \E s \in ScopePtrs, name \in Names : AddBuiltinFunction(s, name)
  \/ \E p \in Live : Clone(p)

vars == <<scopeVars, wrapVars, popVars, cpuVars>>

\* No Population and no VirtualCPUOrg has been constructed.
InitNoCPU == regs = <<>> /\ inst = NoInst

\* A VirtualCPUOrg with anything in its registers.
InitCPU ==
  /\ InitScope /\ ndebug = FALSE /\ call = NoCall
  /\ pops = <<>> /\ out_org = NoOrg /\ it = NoIter /\ visited = <<>>
  /\ regs \in [0..(NumRegs - 1) -> RegValues]
  /\ inst = NoInst

InitNoPop == pops = <<>> /\ out_org = NoOrg /\ it = NoIter /\ visited = <<>>

\* A Population of any size has been constructed.
InitPop ==
  /\ InitScope /\ ndebug = FALSE /\ call = NoCall /\ InitNoCPU
  /\ \E pop_size \in 0..MaxPop : pops = <<Population(1, "pop", 0, pop_size)>>
  /\ out_org = NoOrg /\ it = NoIter /\ visited = <<>>

\* Some Population, and no iterator on it yet.
InitIter ==
  /\ InitScope /\ ndebug = FALSE /\ call = NoCall /\ InitNoCPU
  /\ pops \in {<<P>> : P \in Populations}
  /\ out_org = NoOrg /\ it = NoIter /\ visited = <<>>

Init == InitScope /\ InitWrap /\ InitNoPop /\ InitNoCPU

\* A debug build, for the operations that no emp_assert guards.
InitDebug == InitScope /\ ndebug = FALSE /\ call = NoCall /\ InitNoPop /\ InitNoCPU

Next == NextScope

\* Declarations, renamings and clones.
Spec == Init /\ [][Next]_vars

\* Declarations, clones and assignments.
SpecValue == Init /\ [][NextValue]_vars

\* Assignments to the primitive entries of one scope.
SpecAssign == Init /\ [][NextAssign]_vars

\* Scopes with declared and built-in entries, written out.
SpecWrite == InitDebug /\ [][NextWrite]_vars

\* Scopes and entries with descriptions, written out.
SpecComment == InitDebug /\ [][NextComment]_vars

\* Scopes whose entries have been assigned to and given defaults, written out.
SpecRound == InitDebug /\ [][NextRound]_vars

\* Linked entries and their defaults.
SpecLink == InitDebug /\ [][NextLink]_vars

\* Ownership: scopes built, cloned and destroyed.
SpecDestroy == InitDebug /\ [][NextDestroy]_vars

\* A Population filled, emptied and resized.
SpecPop == InitPop /\ [][NextPop]_vars

\* A loop over the living organisms, which runs on until its condition fails.
SpecAlive == InitIter /\ [][NextAlive]_vars /\ WF_vars(NextAlive)

\* Iterators made, advanced and backed up.
SpecIter == InitIter /\ [][NextIter]_vars

\* A Population copied.
SpecCopy == InitPop /\ [][NextCopy]_vars

\* Typed scopes cloned.
SpecType == InitDebug /\ [][NextType]_vars

\* Numeric constraints set.
SpecRange == InitDebug /\ [][NextRange]_vars

\* Math instructions executed.
SpecCPU == InitCPU /\ [][NextCPU]_vars

\* Invocations of wrapped functions, in either build.
SpecWrap == Init /\ [][NextWrap]_vars

\* Results of invocations living on among declarations and clones.
SpecTemp == Init /\ [][NextTemp]_vars

(***************************************************************************)
(* Properties of lookup and declaration.                                   *)
(***************************************************************************)
\* s, its owning scope, that scope's owning scope, ... up to a root.
RECURSIVE ScopeChain(_)
ScopeChain(s) ==
  IF heap[s].scope = Null THEN <<s>> ELSE <<s>> \o ScopeChain(heap[s].scope)

HasKey(s, name) == name \in Names /\ heap[s].entry_map[name] # Null

\* The entry for name of the first scope of chain that has one, else Null.
NearestEntry(chain, name) ==
  LET having == {i \in 1..Len(chain) : HasKey(chain[i], name)}
  IN  IF having = {} THEN Null
      ELSE LET first == CHOOSE i \in having : \A j \in having : i <= j
           IN  heap[chain[first]].entry_map[name]

\* C1: LookupEntry(name, scan_outer) on a scope returns the scope's own map
\* entry for name if it has one; otherwise, with scan_outer, the entry of the
\* nearest enclosing scope (along the owning-scope references) that has the
\* name; otherwise the null result.  "q" is a name nothing declares.
C1_LookupNearest ==
  \A s \in ScopePtrs : \A name \in Names \cup {"q"} :
    /\ LookupEntry(s, name, TRUE) = NearestEntry(ScopeChain(s), name)
    /\ LookupEntry(s, name, FALSE) = NearestEntry(<<s>>, name)

\* A chain A contains B contains C where only A has x: from C, x resolves to
\* A's x when scanning outward and to nothing when not.
C1_Witness ==
  \E a \in ScopePtrs, b \in ScopePtrs, c \in ScopePtrs :
    /\ heap[c].scope = b /\ heap[b].scope = a
    /\ HasKey(a, "x") /\ ~HasKey(b, "x") /\ ~HasKey(c, "x")
    /\ LookupEntry(c, "x", TRUE) = heap[a].entry_map["x"]
    /\ LookupEntry(c, "x", FALSE) = Null

\* The scope was built by declarations alone, each under a name of its own.
DistinctDeclarations(s) ==
  /\ cloneOf[s] = Null
  /\ \A c \in Children(s) : \A d \in Children(s) :
       c # d => declName[c] # declName[d]

\* C2: in a scope built by Add / AddBuiltin declarations with pairwise distinct
\* names, LookupEntry(name, FALSE) returns, for every declared name, the very
\* child that the declaration of that name created.
C2_LookupDeclared ==
  \A s \in ScopePtrs :
    DistinctDeclarations(s) =>
      \A c \in Children(s) : LookupEntry(s, declName[c], FALSE) = c

\* A scope with a declared and a built-in child under different names.
C2_Witness ==
  \E s \in ScopePtrs :
    /\ DistinctDeclarations(s)
    /\ Len(heap[s].entry_list) >= 1 /\ Len(heap[s].builtin_list) >= 1
    /\ \A c \in Children(s) : LookupEntry(s, declName[c], FALSE) = c

\* A step that declares name in scope s, through any of the wrappers.
Declares(s, name) ==
  \/ \E hv \in HostVars, default_val \in Strings : LinkVar(s, name, hv, default_val)
  \/ AddStringVar(s, name)
  \/ AddValueVar(s, name)
  \/ AddScope(s, name)
  \/ AddBuiltinFunction(s, name)

\* C3: declaring a name that is already a key of the scope's lookup map never
\* overwrites: the map entry for the name, the declared sequence and the
\* built-in sequence are unchanged by the attempt.
C3_NoSilentOverwrite ==
  [][\A s \in ScopePtrs : \A name \in Names :
       (HasKey(s, name) /\ Declares(s, name)) =>
         /\ heap'[s].entry_map[name] = heap[s].entry_map[name]
         /\ heap'[s].entry_list = heap[s].entry_list
         /\ heap'[s].builtin_list = heap[s].builtin_list]_vars

\* How many times p occurs in the sequence.
Occurrences(list, p) == Cardinality({i \in 1..Len(list) : list[i] = p})

\* C4: a scope's table is consistent: every key maps to a child of that name
\* that is in exactly one of the two sequences; every child is the map's value
\* for its own name; no two children have the same name.
C4_TableConsistent ==
  \A s \in ScopePtrs :
    /\ \A name \in Names :
         HasKey(s, name) =>
           LET c == heap[s].entry_map[name]
           IN  /\ heap[c].name = name
               /\ Occurrences(heap[s].entry_list, c)
                    + Occurrences(heap[s].builtin_list, c) = 1
    /\ \A c \in Children(s) :
         /\ heap[c].name \in Names
         /\ heap[s].entry_map[heap[c].name] = c
    /\ \A c \in Children(s) : \A d \in Children(s) :
         c # d => heap[c].name # heap[d].name

(***************************************************************************)
(* Properties of Clone.                                                    *)
(***************************************************************************)
\* A step that changes the value of entry p through its interface.
Assigns(p) ==
  \/ \E d \in Doubles : SetValue(p, d)
  \/ \E t \in Strings : SetString(p, t)
  \/ \E q \in Ptrs : CopyValue(p, q)

\* C5: after a clone, changing the value of the clone's child (of any primitive
\* kind) leaves AsDouble / AsString of the original's corresponding child
\* unchanged, and the other way round.
C5_CloneIndependent ==
  [][\A c \in Ptrs :
       (cloneOf[c] # Null /\ IsPrimitive(c)) =>
         LET o == cloneOf[c]
         IN  /\ Assigns(c) => (AsDouble(o)' = AsDouble(o) /\ AsString(o)' = AsString(o))
             /\ Assigns(o) => (AsDouble(c)' = AsDouble(c) /\ AsString(c)' = AsString(c))]_vars

\* The keys of a scope's lookup map in heap h.
KeysIn(h, s) == {name \in Names : h[s].entry_map[name] # Null}

\* In heap h with copy history co, list holds fresh copies (allocated after
\* the first old objects) of the members of from, in the same order.
CopiesInOrder(h, co, old, list, from) ==
  /\ Len(list) = Len(from)
  /\ \A i \in 1..Len(list) : list[i] > old /\ co[list[i]] = from[i]

\* C6: Clone() of a scope yields a scope (and, recursively, nested scopes)
\* whose declared and built-in sequences hold, in order, fresh copies of the
\* original's, and whose map has the original's keys, each resolving to the
\* copy of the child the original's map resolves it to.
C6_CloneFaithful ==
  [][\A p \in ScopePtrs :
       Clone(p) =>
         \A c \in (Len(heap) + 1)..Len(heap') :
           heap'[c].kind = "scope" =>
             LET o == cloneOf'[c]
             IN  /\ CopiesInOrder(heap', cloneOf', Len(heap),
                                  heap'[c].entry_list, heap[o].entry_list)
                 /\ CopiesInOrder(heap', cloneOf', Len(heap),
                                  heap'[c].builtin_list, heap[o].builtin_list)
                 /\ KeysIn(heap', c) = KeysIn(heap, o)
                 /\ \A name \in KeysIn(heap, o) :
                      cloneOf'[heap'[c].entry_map[name]] = heap[o].entry_map[name]]_vars

\* C7: every child of a cloned scope has that scope as its owning scope, so a
\* lookup that starts in a scope nested in the clone, for a name the clone
\* declares, returns the clone's entry.
C7_CloneBackRefs ==
  \A s \in ScopePtrs :
    cloneOf[s] # Null =>
      \A c \in Children(s) :
        /\ heap[c].scope = s
        /\ IsScope(c) =>
             \A name \in Names :
               (HasKey(s, name) /\ ~HasKey(c, name)) =>
                 LookupEntry(c, name, TRUE) = heap[s].entry_map[name]

(***************************************************************************)
(* Properties of the Function Adapter.                                     *)
(***************************************************************************)
\* The last invocation went through the positional branch of an adapter.
PositionalCall ==
  /\ call.shape \in {"free", "member"}
  /\ ~TakesList(call.name)
  /\ Len(ParamTypes(call.name)) >= 1

\* Parameter i is argument i coerced to parameter i's type.
ArgsInOrder ==
  [i \in 1..Len(ParamTypes(call.name)) |->
     As(call.args[i], ParamTypes(call.name)[i])]

\* C8: an adapter of positional arity n >= 1 invoked with exactly n arguments
\* calls the callable exactly once, parameter i bound to argument i coerced to
\* its type, and returns a Symbol holding the callable's result.
C8_PositionalCall ==
  (PositionalCall /\ Len(call.args) = Len(ParamTypes(call.name))) =>
    /\ ~call.aborted
    /\ call.calls = 1
    /\ call.params = ArgsInOrder
    /\ Len(call.result) = 1
    /\ LET r == call.result[1]
           v == Fun(call.name, ArgsInOrder)
       IN  r.kind = v.kind /\ r.dval = v.dval /\ r.sval = v.sval

\* add(a, b) = a + b wrapped and invoked with Symbols holding 1 and 2 yields a
\* Symbol holding 3; sub, invoked likewise, yields -1 (the order matters).
C8_Witness ==
  /\ call.name \in {"add", "sub"}
  /\ Len(call.args) = 2
  /\ call.args[1].kind = "double" /\ call.args[1].dval = 1
  /\ call.args[2].kind = "double" /\ call.args[2].dval = 2
  /\ call.calls = 1
  /\ call.result[1].dval = (IF call.name = "add" THEN 3 ELSE -1)

\* C9: invoking an adapter of positional arity n >= 1 with m # n arguments
\* reports (name, n, m) exactly once and then completes the call and returns a
\* result, without aborting and without reading an argument position >= m.
C9_MismatchRecoverable ==
  (PositionalCall /\ Len(call.args) # Len(ParamTypes(call.name))) =>
    /\ call.errs = <<ArgCountError(call.name, Len(ParamTypes(call.name)),
                                  Len(call.args))>>
    /\ ~call.aborted
    /\ Len(call.result) = 1
    /\ \A k \in call.reads : k < Len(call.args)

\* The last invocation was of a wrapped zero-argument function.
ZeroArgCall ==
  /\ call.shape \in {"free", "member"}
  /\ ~TakesList(call.name)
  /\ Len(ParamTypes(call.name)) = 0

\* C10: invoking a wrapped zero-argument function with a non-empty argument
\* list is reported as an error but does not crash: the callable is still
\* invoked with no arguments and its converted result is returned.
C10_ZeroArgReported ==
  (ZeroArgCall /\ Len(call.args) # 0) =>
    /\ Len(call.errs) = 1
    /\ ~call.aborted
    /\ call.calls = 1
    /\ call.params = <<>>
    /\ Len(call.result) = 1
    /\ LET r == call.result[1]
           v == Fun(call.name, <<>>)
       IN  IF v.kind = "symbol" THEN call.ret = v.dval
           ELSE r.kind = v.kind /\ r.dval = v.dval /\ r.sval = v.sval

(***************************************************************************)
(* Properties of return adaptation and of temporaries.                     *)
(***************************************************************************)
\* The step is an invocation that came back with a result.
InvocationReturns == call = NoCall /\ call' # NoCall /\ ~call'.aborted

\* What the native callable of the invocation recorded in c returned.
NativeResult(c) ==
  IF TakesList(c.name) THEN FunList(c.name, c.args) ELSE Fun(c.name, c.params)

\* C11: when the native callable returns a Symbol pointer, the invocation
\* returns that very Symbol and allocates and changes nothing; when it returns
\* a primitive, the invocation returns a newly allocated Symbol, distinct from
\* every Symbol that exists (the kept results of earlier invocations among
\* them), temporary, without owning scope, holding the returned value, and no
\* existing Symbol is changed.
C11_ReturnAdaptation ==
  [][InvocationReturns =>
       LET v == NativeResult(call')
           r == call'.ret
       IN  IF v.kind = "symbol"
           THEN r = v.dval /\ heap' = heap
           ELSE /\ r \notin Live
                /\ {p \in 1..Len(heap') : heap'[p].kind # "freed"} = Live \cup {r}
                /\ \A p \in Live : heap'[p] = heap[p]
                /\ heap'[r].is_temporary
                /\ heap'[r].scope = Null
                /\ heap'[r].kind = v.kind
                /\ heap'[r].dval = v.dval
                /\ heap'[r].sval = v.sval]_vars

\* The Symbols that MakeTempSymbol allocated: neither the root, nor allocated
\* into a scope, nor a copy.
Temps == {p \in Live : p > 1 /\ allocIn[p] = Null /\ cloneOf[p] = Null}

\* The result of seven() is pending while the results of two earlier
\* invocations, one numeric and one text, are still held: three Symbols.
C11_Witness ==
  /\ call.name = "seven" /\ ~call.aborted
  /\ call.ret \in Temps
  /\ heap[call.ret].dval = 7
  /\ \E p \in Temps, q \in Temps :
       /\ Cardinality({p, q, call.ret}) = 3
       /\ heap[p].kind = "double" /\ heap[q].kind = "string"

\* C12: a Symbol produced by MakeTempSymbol is temporary and has no owning
\* scope, and whatever declarations, clones and invocations follow, it is in no
\* scope's declared or built-in sequence and no LookupEntry of any scope, for
\* any name, returns it.
C12_TempUnregistered ==
  \A t \in Temps :
    /\ heap[t].is_temporary
    /\ heap[t].scope = Null
    /\ \A s \in ScopePtrs :
         /\ t \notin Children(s)
         /\ \A name \in Names \cup {"__Temp", ""} : \A scan_scopes \in BOOLEAN :
              LookupEntry(s, name, scan_scopes) # t

\* A temporary is held while a clone of a scope exists and a scope has been
\* declared inside it.
C12_Witness ==
  /\ Temps # {}
  /\ \E s \in ScopePtrs : heap[s].scope # Null
  /\ \E c \in ScopePtrs : cloneOf[c] # Null /\ Children(c) # {}

\* C13: every Symbol produced by MakeTempSymbol, and so every wrapped
\* primitive result, is unnamed: its name is the empty string.
C13_TempUnnamed == \A t \in Temps : heap[t].name = ""

(***************************************************************************)
(* Properties of value access.                                             *)
(***************************************************************************)
IsLinked(p) == heap[p].kind \in {"linked_double", "linked_string"}

RECURSIVE DeclaredUnder(_)
DeclaredUnder(p) ==
  UNION {{c} \cup DeclaredUnder(c) : c \in Range(heap[p].entry_list)}

\* The built-in entries of all scopes.
Builtins == UNION {Range(heap[s].builtin_list) : s \in ScopePtrs}

\* The positions in out of the lines of kind k that Symbol q wrote.
LinesOf(out, q, k) == {i \in 1..Len(out) : out[i].sym = q /\ out[i].kind = k}

\* The position of the only such line.
LineOf(out, q, k) == CHOOSE i \in LinesOf(out, q, k) : TRUE

\* Where the lines of q start and end in out.
FirstOf(out, q) == LineOf(out, q, IF IsScope(q) THEN "open" ELSE "assign")

LastOf(out, q) == LineOf(out, q, IF IsScope(q) THEN "close" ELSE "assign")

\* C16: Write on a scope emits the line opening name = {, then every declared
\* child exactly once in declaration order, nested scopes recursively and each
\* level indented two spaces more than its parent, then the closing brace; no
\* built-in entry of any depth is emitted.
C16_WriteStructure ==
  [][\A p \in ScopePtrs : \A prefix \in Prefixes : \A comment_offset \in Offsets :
       (os' # os /\ WriteOut(p, prefix, comment_offset)) =>
         LET out == os'
             D == {p} \cup DeclaredUnder(p)
         IN  /\ FirstOf(out, p) = 1 /\ LastOf(out, p) = Len(out)
             /\ out[1].indent = Len(prefix)
             /\ out[1].text = prefix \o heap[p].name \o " = { "
             /\ out[Len(out)].text = prefix \o "}"
             /\ \A i \in 1..Len(out) : out[i].sym \in D \ Builtins
             /\ \A q \in D :
                  /\ out[FirstOf(out, q)].name = heap[q].name
                  /\ IF IsScope(q)
                     THEN /\ Cardinality(LinesOf(out, q, "open")) = 1
                          /\ Cardinality(LinesOf(out, q, "close")) = 1
                          /\ LinesOf(out, q, "assign") = {}
                          /\ out[LastOf(out, q)].indent = out[FirstOf(out, q)].indent
                     ELSE /\ Cardinality(LinesOf(out, q, "assign")) = 1
                          /\ LinesOf(out, q, "open") = {}
                          /\ LinesOf(out, q, "close") = {}
                  /\ IsScope(q) =>
                       LET list == heap[q].entry_list
                       IN  \A k \in 1..Len(list) :
                             /\ out[FirstOf(out, list[k])].indent
                                  = out[FirstOf(out, q)].indent + 2
                             /\ FirstOf(out, list[k])
                                  = IF k = 1 THEN FirstOf(out, q) + 1
                                    ELSE LastOf(out, list[k - 1]) + 1
                             /\ k = Len(list) =>
                                  LastOf(out, list[k]) + 1 = LastOf(out, q)]_vars

\* The root was written with a declared entry, a built-in entry and a nested
\* scope that itself has an entry: four lines and the closing braces.
C16_Witness ==
  /\ Len(os) = 5
  /\ os[1].kind = "open" /\ os[1].sym = Null + 1
  /\ Builtins # {}
  /\ \E i \in 2..4 : os[i].kind = "open" /\ os[i + 1].kind = "assign"
                       /\ os[i + 1].indent = os[1].indent + 4

\* The characters of a line before any padding and comment.
BodyLen(line) ==
  line.indent + Len(line.name)
    + (IF line.kind = "open" THEN 5 ELSE 3 + Len(line.value) + 1)

\* The lines of out that carry a comment.
Commented(out) == {i \in 1..Len(out) : Len(out[i].comment) # 0}

\* C17: when a Symbol (primitive entry or scope) has a non-empty description,
\* Write places the comment so that it begins at column comment_offset of the
\* line, whatever the lengths of prefix, name and value.
C17_CommentColumn ==
  [][\A p \in Roots : \A comment_offset \in Offsets :
       (os' # os /\ WriteOut(p, "", comment_offset)) =>
         \A i \in 1..Len(os') :
           LET q == os'[i].sym
           IN  (os'[i].kind # "close" /\ Len(heap[q].desc) # 0) =>
                 /\ os'[i].comment = "// " \o heap[q].desc
                 /\ Len(os'[i].text) = comment_offset]_vars

Max(a, b) == IF a >= b THEN a ELSE b

\* C17, amended: the comment begins at column comment_offset when the text
\* before it is shorter than comment_offset characters, and directly after
\* that text otherwise; a Symbol without description gets no comment.
C17_CommentColumnOrAfter ==
  [][\A p \in Roots : \A comment_offset \in Offsets :
       (os' # os /\ WriteOut(p, "", comment_offset)) =>
         \A i \in 1..Len(os') :
           LET q == os'[i].sym
           IN  IF os'[i].kind # "close" /\ Len(heap[q].desc) # 0
               THEN /\ os'[i].comment = "// " \o heap[q].desc
                    /\ Len(os'[i].text) = Max(comment_offset, BodyLen(os'[i]))
               ELSE /\ os'[i].comment = ""
                    /\ Len(os'[i].text) = (IF os'[i].kind = "close"
                                           THEN os'[i].indent + 1
                                           ELSE BodyLen(os'[i]))]_vars

\* One write in which the comment of a short line was padded out to the
\* column and the comment of a longer line starts beyond it.
C17_Witness ==
  \E i \in Commented(os), j \in Commented(os) :
    /\ Len(os[i].text) > BodyLen(os[i])
    /\ Len(os[j].text) = BodyLen(os[j])
    /\ Len(os[j].text) > Len(os[i].text)

\* What reading out back finds about the tree under p: one line per declared
\* Symbol, under the Symbol's name.
ReadsBackNames(out, p) ==
  LET D == {p} \cup DeclaredUnder(p)
  IN  /\ Len(out) = Cardinality(D) + Cardinality({q \in D : IsScope(q)})
      /\ \A q \in D :
           /\ LinesOf(out, q, IF IsScope(q) THEN "open" ELSE "assign") # {}
           /\ out[FirstOf(out, q)].name = heap[q].name
           /\ q # p => out[FirstOf(out, q)].indent
                         = out[FirstOf(out, allocIn[q])].indent + 2

RECURSIVE AllocatedUnder(_, _)
AllocatedUnder(q, p) ==
  /\ allocIn[q] # Null
  /\ (allocIn[q] = p \/ AllocatedUnder(allocIn[q], p))

Subtree(p) == {q \in Live : AllocatedUnder(q, p)}

\* Object q is gone from heap h.
Gone(h, q) == q > Len(h) \/ h[q].kind = "freed"

\* C19: destroying a Scope deletes every Symbol that Add, AddBuiltin or
\* Clone ever allocated into it, declared and built-in, recursively through
\* nested Scopes, exactly once each, and it neither deletes nor changes its
\* parent or any Symbol outside its subtree.
C19_ExclusiveOwnership ==
  [][\A p \in Roots : Destroy(p) =>
       /\ \A q \in Subtree(p) :
            Count(Destructor(p), q) = 1 /\ Gone(heap', q)
       /\ Gone(heap', p)
       /\ \A q \in Live \ (Subtree(p) \cup {p}) :
            /\ Count(Destructor(p), q) = 0
            /\ ~Gone(heap', q)
            /\ heap'[q] = heap[q]]_vars

\* A tree with an entry in it has been destroyed while another tree, a
\* scope holding entries of its own, lives on.
C19_Witness ==
  /\ \E p \in Ptrs, q \in Ptrs :
       /\ Gone(heap, p) /\ Gone(heap, q)
       /\ allocIn[q] = p
  /\ \E r \in Roots : Children(r) # {}

(***************************************************************************)
(* Properties of linking.                                                  *)
(***************************************************************************)
\* C20: LinkVar(name, var, desc, default) and LinkFuns(name, getter, setter,
\* desc, default) set the new entry's default: after the call its default_val
\* is the text of the supplied default, and that is what Write emits for it.
C20_LinkSetsDefault ==
  [][\A name \in Names : \A hv \in HostVars : \A default_val \in Strings :
       (\/ LinkVar(Null + 1, name, hv, default_val)
        \/ LinkFuns(Null + 1, name, hv, default_val)) =>
         LET new_ptr == Len(heap) + 1
         IN  /\ heap'[new_ptr].default_val = default_val
             /\ WrittenValue(new_ptr)' = default_val]_vars

(***************************************************************************)
(* Properties of Population.                                               *)
(***************************************************************************)
\* The positions of the occupied cells of Population P.
Occupied(P) == {pos \in 0..(GetSize(P) - 1) : IsOccupiedAt(P, pos)}

\* Every cell of Q but pos holds what it held in P.
SameButAt(P, Q, pos) ==
  /\ GetSize(Q) = GetSize(P)
  /\ \A i \in 0..(GetSize(P) - 1) : i # pos => Q.orgs[i + 1] = P.orgs[i + 1]

\* C21: for a Population made by the (name, id, size) constructor and driven
\* by SetOrg, ExtractOrg, Resize and PushEmpty calls whose assertions hold,
\* GetNumOrgs() is always the number of occupied cells and lies between 0 and
\* GetSize(); SetOrg changes only the addressed cell and raises the count by
\* one; ExtractOrg returns the organism that was in the addressed cell, makes
\* only that cell empty and lowers the count by one; Resize and PushEmpty add
\* only empty cells.
C21_NumOrgs ==
  [][LET P == pops[1]
         Q == pops'[1]
     IN  /\ GetNumOrgs(Q) = Cardinality(Occupied(Q))
         /\ 0 <= GetNumOrgs(Q) /\ GetNumOrgs(Q) <= GetSize(Q)
         /\ \A pos \in 0..(MaxPop - 1) : \A org_ptr \in Organisms :
              SetOrg(pos, org_ptr) =>
                /\ SameButAt(P, Q, pos)
                /\ Q.orgs[pos + 1] = org_ptr
                /\ GetNumOrgs(Q) = GetNumOrgs(P) + 1
         /\ \A pos \in 0..(MaxPop - 1) :
              ExtractOrg(pos) =>
                /\ out_org' = P.orgs[pos + 1]
                /\ SameButAt(P, Q, pos)
                /\ IsEmptyAt(Q, pos)
                /\ GetNumOrgs(Q) = GetNumOrgs(P) - 1
         /\ ((\E new_size \in 0..MaxPop : Resize(new_size)) \/ PushEmpty) =>
              /\ Occupied(Q) = Occupied(P)
              /\ \A i \in 1..GetSize(Q) :
                   IF i <= GetSize(P) THEN Q.orgs[i] = P.orgs[i]
                   ELSE Q.orgs[i].is_empty
              /\ GetNumOrgs(Q) = GetNumOrgs(P)]_vars

\* An organism has been taken out of a Population that still holds another,
\* next to a cell that PushEmpty or Resize added.
C21_Witness ==
  /\ out_org # NoOrg
  /\ pops[1].num_orgs > 0
  /\ \E pos \in 0..(GetSize(pops[1]) - 1) : IsEmptyAt(pops[1], pos)
  /\ it # NoIter

\* Iterator I is on an occupied cell or past the last cell.
OnOccupiedOrEnd(I) == I.pos >= PopSize(I) \/ ~OrgPtr(I).is_empty

Increasing(seq) == \A i \in 1..Len(seq) : \A j \in 1..Len(seq) : i < j => seq[i] < seq[j]

\* The loop over the living organisms has run to its end.
AliveDone == it # NoIter /\ Equal(it, end_alive)

\* C22: the loop from begin_alive() by operator++ to end_alive() comes to an
\* end, and when it has, it has visited exactly the occupied cells, each
\* once, in increasing order of position, whatever the size and occupancy
\* of the population; and every skip_empty iterator that construction,
\* operator++ or SkipEmpty(true) produces is on an occupied cell or at a
\* position >= PopSize().
C22_AliveIteration ==
  /\ <>AliveDone
  /\ [](AliveDone =>
         Increasing(visited) /\ Range(visited) = Occupied(pops[1]))
  /\ [](it.skip_empty => OnOccupiedOrEnd(it))
  /\ [](\A pos \in 0..size_max :
         /\ OnOccupiedOrEnd(Iterator(1, pos, TRUE))
         /\ OnOccupiedOrEnd(Increment(IteratorAt(1, pos, TRUE)))
         /\ OnOccupiedOrEnd(SkipEmpty(IteratorAt(1, pos, FALSE), TRUE)))

\* The loop has ended after two organisms, in a population whose last cell is
\* empty.
C22_Witness ==
  /\ AliveDone
  /\ Len(visited) = 2
  /\ IsEmptyAt(pops[1], GetSize(pops[1]) - 1)

\* C23: operator-- with skip_empty set, from a position p with
\* 0 < p <= PopSize(), leaves the iterator in range and on an occupied cell,
\* the greatest occupied position below p.
C23_DecrementToOccupied ==
  [][(/\ it # NoIter /\ it.skip_empty
      /\ 0 < it.pos /\ it.pos <= PopSize(it)
      /\ MinusMinus) =>
       /\ it'.pos < PopSize(it)
       /\ it'.pos \in Occupied(pops[1])
       /\ it'.pos < it.pos
       /\ \A q \in Occupied(pops[1]) : q < it.pos => q <= it'.pos]_vars

\* C24: a Population made by the copy constructor has the size and the
\* occupancy pattern of its source, with a fresh clone in each occupied cell
\* and its own empty placeholder in each empty one; its GetNumOrgs() is the
\* number of its occupied cells and its max_orgs is the source's max_orgs.
C24_CopyConsistent ==
  \A k \in 2..Len(pops) :
    LET in_pop == pops[1]
        copy == pops[k]
    IN  /\ GetSize(copy) = GetSize(in_pop)
        /\ Occupied(copy) = Occupied(in_pop)
        /\ \A i \in 1..GetSize(copy) :
             IF in_pop.orgs[i].is_empty
             THEN copy.orgs[i] = EmptyOrgOf(k)
             ELSE /\ copy.orgs[i].clone_of = in_pop.orgs[i].id
                  /\ \A j \in 1..GetSize(in_pop) :
                       copy.orgs[i].id # in_pop.orgs[j].id
        /\ GetNumOrgs(copy) = Cardinality(Occupied(copy))
        /\ copy.max_orgs = in_pop.max_orgs

(***************************************************************************)
(* Properties of a Scope's metadata and of the numeric constraints.        *)
(***************************************************************************)
\* C25: Clone() of a Scope preserves the Scope's own metadata: the clone's
\* name, description and structure type are those of the original.
C25_ClonePreservesType ==
  [][\A p \in Live : (IsScope(p) /\ Clone(p)) =>
       LET new_ptr == Len(heap) + 1
       IN  /\ heap'[new_ptr].name = heap[p].name
           /\ heap'[new_ptr].desc = heap[p].desc
           /\ heap'[new_ptr].type = heap[p].type]_vars

\* C26: SetMin(v) changes only the lower bound of the range and SetMax(v)
\* only the upper bound: value, name, description, default text and the
\* other bound are left as they were.
C26_MinMaxIndependent ==
  [][\A p \in Live : \A v \in Doubles :
       /\ SetMin(p, v) => heap' = [heap EXCEPT ![p].range.lower = v]
       /\ SetMax(p, v) => heap' = [heap EXCEPT ![p].range.upper = v]]_vars

(***************************************************************************)
(* Properties of the math instructions.                                    *)
(***************************************************************************)
\* Bit i of register value x.
Bit(x, i) == (x \div 2^i) % 2

\* x is the value of the integer n in a register.
IsWrapped(x, n) == x \in RegValues /\ (x - n) % (2^RegBits) = 0

\* What the instruction called name is to write, given the old registers.
Written(name, old, t, x) ==
  CASE name = "Inc" -> IsWrapped(x, old[t] + 1)
    [] name = "Dec" -> IsWrapped(x, old[t] - 1)
    [] name = "ShiftR" -> x = old[t] \div 2
    [] name = "ShiftL" -> IsWrapped(x, old[t] + old[t])
    [] name = "Add" -> IsWrapped(x, old[1] + old[2])
    [] name = "Sub" -> IsWrapped(x, old[1] - old[2])
    [] name = "Nand" ->
         /\ x \in RegValues
         /\ \A i \in 0..(RegBits - 1) :
              Bit(x, i) = 1 - Bit(old[1], i) * Bit(old[2], i)

\* C27: each math instruction writes exactly one register, nop_vec[0] when
\* the instruction carries a nop and register 1 otherwise, and leaves the
\* others as they were; the value written is, in fixed-width arithmetic,
\* Inc regs[t]+1, Dec regs[t]-1, ShiftR regs[t]>>1, ShiftL regs[t]<<1,
\* Add regs[1]+regs[2], Sub regs[1]-regs[2], Nand ~(regs[1] & regs[2]), with
\* regs[1] and regs[2] read before the write.
C27_MathInstructions ==
  [][LET t == IF Len(inst'.nop_vec) > 0 THEN inst'.nop_vec[1] ELSE 1
     IN  /\ \A r \in 0..(NumRegs - 1) : r # t => regs'[r] = regs[r]
         /\ Written(inst'.name, regs, t, regs'[t])]_vars

\* An Add that carried a nop naming one of its own operands has overflowed
\* into it.
C27_Witness ==
  /\ inst.name = "Add"
  /\ inst.nop_vec = <<2>>
  /\ regs[2] < regs[1]

=============================================================================
